---- MODULE Spec2Model ----
(***************************************************************************)
(* Ergonomic risk analyzer: the scoring functions of app/services.py, the  *)
(* assessment store they write to, and the questionnaire component of      *)
(* app/questionnaire.py that completes an assessment, the posture capture  *)
(* of app/webcam_capture.py, the demo of app/homepage.py and the click     *)
(* handler of app/body_map.py.                                             *)
(*                                                                         *)
(* The specifications share the variables:                                 *)
(*   SpecScoring        single calls of the scoring functions and of       *)
(*                      create_body_part_assessment, over many arguments   *)
(*   Spec               the service operations on the store                *)
(*   SpecAggregator     the session aggregator over many tables of rows    *)
(*   SpecQuestionnaire  the questionnaire page acting on the store         *)
(*   SpecAssessment     creating and completing assessments                *)
(*   SpecReadBack       storing body-part rows and reading them back       *)
(*   SpecNavigation     the questionnaire page alone                       *)
(*   SpecSession        capture, questionnaire with database faults, demo  *)
(*   SpecBodyMap        a session that goes on to click the body map       *)
(***************************************************************************)
EXTENDS Integers, Sequences, FiniteSets, TLC

VARIABLES
    call,                    \* the call made since the store last changed, and its result
    assessments,             \* table "assessments", row i has id i
    body_part_assessments,   \* table "body_part_assessments", row i has id i
    q_created,               \* GotrakQuestionnaireComponent.create() has run
    q_assessment_id,         \* GotrakQuestionnaireComponent.assessment_id
    responses,               \* GotrakQuestionnaireComponent.responses
    current_question_index,  \* GotrakQuestionnaireComponent.current_question_index
    nav,                     \* visibility of the Previous, Next and Complete buttons
    webcam_component,        \* app.storage.client holds a WebcamCaptureComponent
    latest_analysis,         \* WebcamCaptureComponent.latest_analysis, as the questionnaire reads it
    capture_attempts,        \* what analyze_posture returned to the component, attempt by attempt
    completed_assessment_id  \* app.storage.client["completed_assessment_id"]

scoreVars == <<call>>
storeVars == <<assessments, body_part_assessments>>
uiVars == <<q_created, q_assessment_id, responses, current_question_index, nav,
            webcam_component, latest_analysis, capture_attempts,
            completed_assessment_id>>
vars == <<call, assessments, body_part_assessments, q_created, q_assessment_id,
          responses, current_question_index, nav, webcam_component, latest_analysis,
          capture_attempts, completed_assessment_id>>

----------------------------------------------------------------------------
(* Bounds *)

MaxAngleKeys == 2        \* keys of an angle dict handed to the posture scorer
MaxAssessments == 1      \* rows of table assessments
MaxBodyParts == 2        \* rows of table body_part_assessments
MaxQuestions == 3        \* questions of the questionnaire (a prefix of the default list)
MaxCaptures == 2         \* capture attempts of one webcam component

----------------------------------------------------------------------------
(* Enumerations of app/models.py *)

None == "None"

SeverityLevel == {"No problem", "Uncomfortable", "Pain", "Severe pain"}

FrequencyLevel == {"Never", "Sometimes", "Often", "Always"}

GREEN == "Green"
YELLOW == "Yellow"
RED == "Red"

RiskLevel == {GREEN, YELLOW, RED}

NECK == "Neck"
SHOULDER_LEFT == "Left Shoulder"
SHOULDER_RIGHT == "Right Shoulder"
ARM_LEFT == "Left Arm"
ARM_RIGHT == "Right Arm"
UPPER_BACK == "Upper Back"
LOWER_BACK == "Lower Back"

BodyPartType ==
    {NECK, SHOULDER_LEFT, SHOULDER_RIGHT, ARM_LEFT, ARM_RIGHT,
     "Left Elbow", "Right Elbow", "Left Wrist", "Right Wrist",
     "Left Hand", "Right Hand", UPPER_BACK, LOWER_BACK,
     "Left Hip", "Right Hip", "Left Thigh", "Right Thigh",
     "Left Knee", "Right Knee", "Left Ankle", "Right Ankle"}

\* RiskLevel in its documented order green < yellow < red
RiskRank(r) == CASE r = GREEN -> 1 [] r = YELLOW -> 2 [] r = RED -> 3

----------------------------------------------------------------------------
(* GotrakService *)

\* the dict severity_scores; DOMAIN is the set of its keys
severity_scores ==
    [s \in SeverityLevel |->
        CASE s = "No problem" -> 1
          [] s = "Uncomfortable" -> 2
          [] s = "Pain" -> 3
          [] s = "Severe pain" -> 4]

\* the dict frequency_scores
frequency_scores ==
    [f \in FrequencyLevel |->
        CASE f = "Never" -> 1
          [] f = "Sometimes" -> 2
          [] f = "Often" -> 3
          [] f = "Always" -> 4]

\* dict.get(key, default)
DictGet(d, key, default) == IF key \in DOMAIN d THEN d[key] ELSE default

\* variant: the ranks are added instead of multiplied
calculate_gotrak_score_sum(severity, frequency) ==
    LET severity_score == DictGet(severity_scores, severity, 1)
        frequency_score == DictGet(frequency_scores, frequency, 1)
    IN  severity_score + frequency_score

calculate_gotrak_score(severity, frequency) ==
    LET severity_score == DictGet(severity_scores, severity, 1)
        frequency_score == DictGet(frequency_scores, frequency, 1)
    IN  severity_score * frequency_score

\* variant: contiguous bands, yellow for 5 and 6
get_gotrak_risk_level_contiguous(gotrak_score) ==
    IF gotrak_score <= 4 THEN GREEN
    ELSE IF gotrak_score <= 6 THEN YELLOW
    ELSE RED

\* variant: yellow reaches up to 8
get_gotrak_risk_level_yellow_to_eight(gotrak_score) ==
    IF gotrak_score <= 4 THEN GREEN
    ELSE IF gotrak_score <= 8 THEN YELLOW
    ELSE RED

\* variant: yellow and red are exchanged
get_gotrak_risk_level_exchanged(gotrak_score) ==
    IF gotrak_score <= 4 THEN GREEN
    ELSE IF gotrak_score = 6 THEN RED
    ELSE YELLOW

get_gotrak_risk_level(gotrak_score) ==
    IF gotrak_score <= 4 THEN GREEN
    ELSE IF gotrak_score = 6 THEN YELLOW
    ELSE RED

----------------------------------------------------------------------------
(* RulaCalculationService *)

\* measurement names: the four the scorer reads, and the demo's "mock_angle",
\* which it never reads
AngleKeys == {"neck_flexion", "left_upper_arm", "right_upper_arm",
              "trunk_flexion", "mock_angle"}

\* degrees a measurement takes here: the band edges of the table that reads
\* it, the values next to them, and a negative angle
AngleValues(key) ==
    CASE key = "neck_flexion" -> {-15, 9, 10, 19, 20}
      [] key \in {"left_upper_arm", "right_upper_arm"} -> {-15, 19, 20, 44, 45, 89, 90}
      [] key = "trunk_flexion" -> {-15, 4, 5, 19, 20, 59, 60}
      [] OTHER -> {25}

\* a dict of angles is a function from the keys present to degrees
AngleDictsOver(K) ==
    {a \in [K -> UNION {AngleValues(k) : k \in K}] :
        \A k \in K : a[k] \in AngleValues(k)}

EmptyDict == <<>>

\* variant: closed upper band edges
neck_band_closed(neck_angle) ==
    IF neck_angle <= 10 THEN 1
    ELSE IF neck_angle <= 20 THEN 2
    ELSE 3

neck_band(neck_angle) ==
    IF neck_angle < 10 THEN 1
    ELSE IF neck_angle < 20 THEN 2
    ELSE 3

\* variant: closed upper band edges
arm_band_closed(arm_angle) ==
    IF arm_angle <= 20 THEN 1
    ELSE IF arm_angle <= 45 THEN 2
    ELSE IF arm_angle <= 90 THEN 3
    ELSE 4

\* variant: no band below 1 is excluded, a raised arm below the horizon scores 0
arm_band_from_zero(arm_angle) ==
    IF arm_angle < 0 THEN 0
    ELSE IF arm_angle < 20 THEN 1
    ELSE IF arm_angle < 45 THEN 2
    ELSE IF arm_angle < 90 THEN 3
    ELSE 4

arm_band(arm_angle) ==
    IF arm_angle < 20 THEN 1
    ELSE IF arm_angle < 45 THEN 2
    ELSE IF arm_angle < 90 THEN 3
    ELSE 4

\* variant: closed upper band edges
trunk_band_closed(trunk_angle) ==
    IF trunk_angle <= 5 THEN 1
    ELSE IF trunk_angle <= 20 THEN 2
    ELSE IF trunk_angle <= 60 THEN 3
    ELSE 4

trunk_band(trunk_angle) ==
    IF trunk_angle < 5 THEN 1
    ELSE IF trunk_angle < 20 THEN 2
    ELSE IF trunk_angle < 60 THEN 3
    ELSE 4

\* the dict scores with both keys set to one position score
Scores(position_score) ==
    [k \in {"position_score", "final_score"} |-> position_score]

\* variant: the lower back is scored with the trunk table, like the upper back
calculate_rula_score_lower_back(angles, body_part) ==
    CASE body_part = NECK ->
            IF "neck_flexion" \in DOMAIN angles
            THEN Scores(neck_band(angles["neck_flexion"]))
            ELSE EmptyDict
      [] body_part \in {ARM_LEFT, ARM_RIGHT} ->
            LET arm_key == IF body_part = ARM_LEFT THEN "left_upper_arm"
                           ELSE "right_upper_arm"
            IN  IF arm_key \in DOMAIN angles
                THEN Scores(arm_band(angles[arm_key]))
                ELSE EmptyDict
      [] body_part \in {UPPER_BACK, LOWER_BACK} ->
            IF "trunk_flexion" \in DOMAIN angles
            THEN Scores(trunk_band(angles["trunk_flexion"]))
            ELSE EmptyDict
      [] OTHER -> Scores(2)

calculate_rula_score(angles, body_part) ==
    CASE body_part = NECK ->
            IF "neck_flexion" \in DOMAIN angles
            THEN Scores(neck_band(angles["neck_flexion"]))
            ELSE EmptyDict
      [] body_part \in {ARM_LEFT, ARM_RIGHT} ->
            LET arm_key == IF body_part = ARM_LEFT THEN "left_upper_arm"
                           ELSE "right_upper_arm"
            IN  IF arm_key \in DOMAIN angles
                THEN Scores(arm_band(angles[arm_key]))
                ELSE EmptyDict
      [] body_part = UPPER_BACK ->
            IF "trunk_flexion" \in DOMAIN angles
            THEN Scores(trunk_band(angles["trunk_flexion"]))
            ELSE EmptyDict
      [] OTHER -> Scores(2)

\* variant: yellow starts at 2
get_risk_level_from_rula_score_low(rula_score) ==
    IF rula_score <= 1 THEN GREEN
    ELSE IF rula_score <= 4 THEN YELLOW
    ELSE RED

get_risk_level_from_rula_score(rula_score) ==
    IF rula_score <= 2 THEN GREEN
    ELSE IF rula_score <= 4 THEN YELLOW
    ELSE RED

----------------------------------------------------------------------------
(* Calls of the scoring functions: the arguments are drawn by InitScoring, *)
(* the function is applied by one step.                                    *)

\* a value of type str that is no member of SeverityLevel / FrequencyLevel;
\* Python checks no argument type at run time
SeverityInputs == SeverityLevel \cup {"Agony"}
FrequencyInputs == FrequencyLevel \cup {"Hourly"}

\* the range of a discomfort score and its two neighbours
ScoreInputs == 0..17

\* the range of a posture final score and its two neighbours
RulaScoreInputs == 0..8

NoCall ==
    [fn |-> "none", done |-> FALSE, outcome |-> "none",
     severity |-> None, frequency |-> None, gotrak_score |-> 0,
     rula_score |-> 0, angles |-> EmptyDict, body_part |-> None, assessment_id |-> 0,
     overall_rula_score |-> <<>>, overall_risk_level |-> None,
     ret_int |-> 0, ret_risk |-> None, ret_scores |-> EmptyDict,
     ret_decimal |-> <<>>, ret_info |-> <<>>,
     body_part_name |-> None, selected_body_part |-> None, status |-> None]

call_calculate_gotrak_score ==
    /\ call.fn = "calculate_gotrak_score"
    /\ ~call.done
    /\ call' = [call EXCEPT !.done = TRUE, !.outcome = "returned",
                            !.ret_int = calculate_gotrak_score(call.severity, call.frequency)]
    /\ UNCHANGED <<storeVars, uiVars>>

call_get_gotrak_risk_level ==
    /\ call.fn = "get_gotrak_risk_level"
    /\ ~call.done
    /\ call' = [call EXCEPT !.done = TRUE, !.outcome = "returned",
                            !.ret_risk = get_gotrak_risk_level(call.gotrak_score)]
    /\ UNCHANGED <<storeVars, uiVars>>

call_calculate_rula_score ==
    /\ call.fn = "calculate_rula_score"
    /\ ~call.done
    /\ call' = [call EXCEPT !.done = TRUE, !.outcome = "returned",
                            !.ret_scores = calculate_rula_score(call.angles, call.body_part)]
    /\ UNCHANGED <<storeVars, uiVars>>

call_get_risk_level_from_rula_score ==
    /\ call.fn = "get_risk_level_from_rula_score"
    /\ ~call.done
    /\ call' = [call EXCEPT !.done = TRUE, !.outcome = "returned",
                            !.ret_risk = get_risk_level_from_rula_score(call.rula_score)]
    /\ UNCHANGED <<storeVars, uiVars>>

----------------------------------------------------------------------------
(* The store and the page state before anything has happened *)

NoId == 0

\* Decimal values are exact fractions <<numerator, denominator>>; <<>> is None
NoDecimal == <<>>

\* latest_analysis when nothing was captured (None), or no webcam component
NoAnalysis == <<>>

InitStore ==
    /\ assessments = <<>>
    /\ body_part_assessments = <<>>

InitUi ==
    /\ q_created = FALSE
    /\ q_assessment_id = NoId
    /\ responses = <<>>
    /\ current_question_index = 0
    /\ nav = [prev |-> TRUE, next |-> TRUE, finish |-> TRUE]
    /\ webcam_component = FALSE
    /\ latest_analysis = NoAnalysis
    /\ capture_attempts = <<>>
    /\ completed_assessment_id = NoId

----------------------------------------------------------------------------
(* Decimal arithmetic *)

RECURSIVE Gcd(_, _)
Gcd(a, b) == IF b = 0 THEN a ELSE Gcd(b, a % b)

\* the fraction n/d in lowest terms, d > 0 and n >= 0
Decimal(n, d) == LET g == Gcd(n, d) IN <<n \div g, d \div g>>

DecimalAdd(x, y) == Decimal(x[1] * y[2] + y[1] * x[2], x[2] * y[2])

\* the exact quotient; Python rounds it to the 28 significant digits of the
\* default context
DecimalDivInt(x, n) == Decimal(x[1], x[2] * n)

RECURSIVE DecimalSum(_)
DecimalSum(xs) ==
    IF xs = <<>> THEN Decimal(0, 1) ELSE DecimalAdd(Head(xs), DecimalSum(Tail(xs)))

----------------------------------------------------------------------------
(* AssessmentService *)

\* Assessment(**assessment_data.model_dump()) with the defaults of the model class
NewAssessment ==
    [overall_rula_score |-> NoDecimal, overall_risk_level |-> None,
     is_completed |-> FALSE]

create_assessment ==
    /\ Len(assessments) < MaxAssessments
    /\ assessments' = Append(assessments, NewAssessment)
    /\ call' = NoCall
    /\ UNCHANGED <<body_part_assessments, uiVars>>

\* variant: the completion flag is flipped instead of set
CompletedTable_flip(table, assessment_id, overall_rula_score, overall_risk_level) ==
    IF assessment_id \notin DOMAIN table THEN table
    ELSE [table EXCEPT ![assessment_id] =
            [overall_rula_score |-> overall_rula_score,
             overall_risk_level |-> overall_risk_level,
             is_completed |-> ~table[assessment_id].is_completed]]

\* variant: the overall score is not stored
CompletedTable_no_score(table, assessment_id, overall_rula_score, overall_risk_level) ==
    IF assessment_id \notin DOMAIN table THEN table
    ELSE [table EXCEPT ![assessment_id] =
            [overall_rula_score |-> table[assessment_id].overall_rula_score,
             overall_risk_level |-> overall_risk_level,
             is_completed |-> TRUE]]

\* the table after complete_assessment; unchanged when session.get finds no row
CompletedTable(table, assessment_id, overall_rula_score, overall_risk_level) ==
    IF assessment_id \notin DOMAIN table THEN table
    ELSE [table EXCEPT ![assessment_id] =
            [overall_rula_score |-> overall_rula_score,
             overall_risk_level |-> overall_risk_level,
             is_completed |-> TRUE]]

complete_assessment(assessment_id, overall_rula_score, overall_risk_level) ==
    /\ assessments' = CompletedTable(assessments, assessment_id,
                                     overall_rula_score, overall_risk_level)
    /\ call' = NoCall
    /\ UNCHANGED <<body_part_assessments, uiVars>>

----------------------------------------------------------------------------
(* BodyPartAssessmentService *)

\* variant: a missing final score is stored as no score
NewBodyPartAssessment_no_default(assessment_id, body_part, angles, severity, frequency) ==
    LET rula_data == calculate_rula_score(angles, body_part)
        rula_score == IF "final_score" \in DOMAIN rula_data
                      THEN Decimal(rula_data["final_score"], 1)
                      ELSE NoDecimal
        gotrak_score == calculate_gotrak_score(severity, frequency)
        gotrak_risk_level == get_gotrak_risk_level(gotrak_score)
    IN  [assessment_id |-> assessment_id,
         body_part |-> body_part,
         rula_score |-> rula_score,
         angle_measurements |-> angles,
         severity_level |-> severity,
         frequency_level |-> frequency,
         gotrak_score |-> gotrak_score,
         gotrak_risk_level |-> gotrak_risk_level]

\* variant: the stored risk level is that of the posture score
NewBodyPartAssessment_rula_risk(assessment_id, body_part, angles, severity, frequency) ==
    LET rula_data == calculate_rula_score(angles, body_part)
        rula_score == Decimal(DictGet(rula_data, "final_score", 2), 1)
        gotrak_score == calculate_gotrak_score(severity, frequency)
        gotrak_risk_level == get_risk_level_from_rula_score(rula_score[1])
    IN  [assessment_id |-> assessment_id,
         body_part |-> body_part,
         rula_score |-> rula_score,
         angle_measurements |-> angles,
         severity_level |-> severity,
         frequency_level |-> frequency,
         gotrak_score |-> gotrak_score,
         gotrak_risk_level |-> gotrak_risk_level]

\* the row create_body_part_assessment builds
NewBodyPartAssessment(assessment_id, body_part, angles, severity, frequency) ==
    LET rula_data == calculate_rula_score(angles, body_part)
        rula_score == Decimal(DictGet(rula_data, "final_score", 2), 1)
        gotrak_score == calculate_gotrak_score(severity, frequency)
        gotrak_risk_level == get_gotrak_risk_level(gotrak_score)
    IN  [assessment_id |-> assessment_id,
         body_part |-> body_part,
         rula_score |-> rula_score,
         angle_measurements |-> angles,
         severity_level |-> severity,
         frequency_level |-> frequency,
         gotrak_score |-> gotrak_score,
         gotrak_risk_level |-> gotrak_risk_level]

\* variant: a row of the same assessment and body part is replaced
create_body_part_assessment_upsert(assessment_id, body_part, angles, severity, frequency) ==
    LET row == NewBodyPartAssessment(assessment_id, body_part, angles,
                                     severity, frequency)
        existing == {i \in DOMAIN body_part_assessments :
                        /\ body_part_assessments[i].assessment_id = assessment_id
                        /\ body_part_assessments[i].body_part = body_part}
    IN  /\ Len(body_part_assessments) < MaxBodyParts
        /\ body_part_assessments' =
              IF existing = {} THEN Append(body_part_assessments, row)
              ELSE [i \in DOMAIN body_part_assessments |->
                       IF i \in existing THEN row ELSE body_part_assessments[i]]
        /\ call' = NoCall
        /\ UNCHANGED <<assessments, uiVars>>

create_body_part_assessment(assessment_id, body_part, angles, severity, frequency) ==
    /\ Len(body_part_assessments) < MaxBodyParts
    /\ body_part_assessments' =
          Append(body_part_assessments,
                 NewBodyPartAssessment(assessment_id, body_part, angles,
                                       severity, frequency))
    /\ call' = NoCall
    /\ UNCHANGED <<assessments, uiVars>>

get_assessment_body_parts(table, assessment_id) ==
    SelectSeq(table, LAMBDA bp : bp.assessment_id = assessment_id)

\* the BodyPartRiskInfo built from a row
BodyPartRiskInfo(body_part_assessment) ==
    [body_part_name |-> body_part_assessment.body_part,
     rula_score |-> body_part_assessment.rula_score,
     severity_level |-> body_part_assessment.severity_level,
     frequency_level |-> body_part_assessment.frequency_level,
     gotrak_risk_level |-> body_part_assessment.gotrak_risk_level,
     gotrak_score |-> body_part_assessment.gotrak_score]

\* get_body_part_risk_info returning None
NoInfo == <<>>

\* what get_body_part_risk_info can return: None without a matching row, else
\* the info of the row .first() yields; the select has no ORDER BY, so that
\* is any of the matching rows
get_body_part_risk_info(table, assessment_id, body_part) ==
    LET matching == {i \in DOMAIN table :
                        /\ table[i].assessment_id = assessment_id
                        /\ table[i].body_part = body_part}
    IN  IF matching = {} THEN {NoInfo}
        ELSE {BodyPartRiskInfo(table[i]) : i \in matching}

call_get_body_part_risk_info(assessment_id, body_part) ==
    /\ \E info \in get_body_part_risk_info(body_part_assessments, assessment_id,
                                             body_part) :
          call' = [NoCall EXCEPT !.fn = "get_body_part_risk_info", !.done = TRUE,
                                 !.outcome = "returned",
                                 !.assessment_id = assessment_id,
                                 !.body_part = body_part,
                                 !.ret_info = info]
    /\ UNCHANGED <<storeVars, uiVars>>

----------------------------------------------------------------------------
(* GotrakQuestionnaireComponent._calculate_overall_scores, as a function of *)
(* the component's assessment_id and the table it reads                     *)

\* variant: one red row is not enough
overall_risk_two_red(body_parts) ==
    LET high_risk_count ==
            Cardinality({i \in DOMAIN body_parts :
                            body_parts[i].gotrak_risk_level = RED})
        moderate_risk_count ==
            Cardinality({i \in DOMAIN body_parts :
                            body_parts[i].gotrak_risk_level = YELLOW})
    IN  IF high_risk_count > 1 THEN RED
        ELSE IF moderate_risk_count > 1 THEN YELLOW
        ELSE GREEN

\* variant: one yellow row is enough
overall_risk_one_yellow(body_parts) ==
    LET high_risk_count ==
            Cardinality({i \in DOMAIN body_parts :
                            body_parts[i].gotrak_risk_level = RED})
        moderate_risk_count ==
            Cardinality({i \in DOMAIN body_parts :
                            body_parts[i].gotrak_risk_level = YELLOW})
    IN  IF high_risk_count > 0 THEN RED
        ELSE IF moderate_risk_count > 0 THEN YELLOW
        ELSE GREEN

\* variant: red rows are counted with the yellow ones
overall_risk_red_as_yellow(body_parts) ==
    LET moderate_risk_count ==
            Cardinality({i \in DOMAIN body_parts :
                            body_parts[i].gotrak_risk_level \in {YELLOW, RED}})
    IN  IF moderate_risk_count > 1 THEN YELLOW
        ELSE GREEN

\* variant: a red row counts only when it is the first row
overall_risk_first_row(body_parts) ==
    LET high_risk_count ==
            Cardinality({i \in DOMAIN body_parts :
                            i = 1 /\ body_parts[i].gotrak_risk_level = RED})
        moderate_risk_count ==
            Cardinality({i \in DOMAIN body_parts :
                            body_parts[i].gotrak_risk_level = YELLOW})
    IN  IF high_risk_count > 0 THEN RED
        ELSE IF moderate_risk_count > 1 THEN YELLOW
        ELSE GREEN

\* the overall risk level from the rows' discomfort risk levels
overall_risk(body_parts) ==
    LET high_risk_count ==
            Cardinality({i \in DOMAIN body_parts :
                            body_parts[i].gotrak_risk_level = RED})
        moderate_risk_count ==
            Cardinality({i \in DOMAIN body_parts :
                            body_parts[i].gotrak_risk_level = YELLOW})
    IN  IF high_risk_count > 0 THEN RED
        ELSE IF moderate_risk_count > 1 THEN YELLOW
        ELSE GREEN

\* variant: the rows without a posture score are counted in the divisor
avg_rula_all_rows(body_parts) ==
    LET present == SelectSeq(body_parts, LAMBDA bp : bp.rula_score # NoDecimal)
        rula_scores == [i \in DOMAIN present |-> present[i].rula_score]
    IN  IF rula_scores # <<>>
        THEN DecimalDivInt(DecimalSum(rula_scores), Len(body_parts))
        ELSE Decimal(2, 1)

\* the mean of the posture scores present
avg_rula(body_parts) ==
    LET present == SelectSeq(body_parts, LAMBDA bp : bp.rula_score # NoDecimal)
        rula_scores == [i \in DOMAIN present |-> present[i].rula_score]
    IN  IF rula_scores # <<>>
        THEN DecimalDivInt(DecimalSum(rula_scores), Len(rula_scores))
        ELSE Decimal(2, 1)

\* variant: without an assessment or without rows the overall score is 0
calculate_overall_scores_zero(assessment_id, table) ==
    IF assessment_id = NoId THEN <<Decimal(0, 1), GREEN>>
    ELSE LET body_parts == get_assessment_body_parts(table, assessment_id)
         IN  IF body_parts = <<>> THEN <<Decimal(0, 1), GREEN>>
             ELSE <<avg_rula(body_parts), overall_risk(body_parts)>>

calculate_overall_scores(assessment_id, table) ==
    IF assessment_id = NoId THEN <<Decimal(2, 1), GREEN>>
    ELSE LET body_parts == get_assessment_body_parts(table, assessment_id)
         IN  IF body_parts = <<>> THEN <<Decimal(2, 1), GREEN>>
             ELSE <<avg_rula(body_parts), overall_risk(body_parts)>>

\* a component whose assessment_id is the given one computes the overall scores
_calculate_overall_scores(assessment_id) ==
    LET overall == calculate_overall_scores(assessment_id, body_part_assessments)
    IN  /\ call' = [NoCall EXCEPT !.fn = "_calculate_overall_scores", !.done = TRUE,
                                  !.outcome = "returned",
                                  !.assessment_id = assessment_id,
                                  !.ret_decimal = overall[1],
                                  !.ret_risk = overall[2]]
        /\ UNCHANGED <<storeVars, uiVars>>

----------------------------------------------------------------------------
(* The service operations, called with arguments from small sets *)

\* (severity, frequency) answers: scored 1 (green), 6 (yellow) and 9 (red)
SurveyInputs ==
    {<<"No problem", "Never">>, <<"Uncomfortable", "Often">>, <<"Pain", "Often">>}

\* (body part, angles): the neck without angles and with a neck angle, and a
\* body part without an angle table with the angles of the demo assessment
PostureInputs ==
    {<<NECK, EmptyDict>>, <<NECK, [k \in {"neck_flexion"} |-> 25]>>,
     <<LOWER_BACK, [k \in {"mock_angle"} |-> 25]>>}

\* the values the callers of complete_assessment pass: the default of the
\* session aggregator and the constants of the demo assessment
OverallInputs == {<<Decimal(2, 1), GREEN>>, <<Decimal(16, 5), YELLOW>>}

\* create_body_part_assessment is called for an assessment the store holds
call_create_body_part_assessment ==
    /\ call.fn = "create_body_part_assessment"
    /\ ~call.done
    /\ call.assessment_id \in DOMAIN assessments
    /\ Len(body_part_assessments) < MaxBodyParts
    /\ body_part_assessments' =
          Append(body_part_assessments,
                 NewBodyPartAssessment(call.assessment_id, call.body_part, call.angles,
                                       call.severity, call.frequency))
    /\ call' = [call EXCEPT !.done = TRUE, !.outcome = "returned"]
    /\ UNCHANGED <<assessments, uiVars>>

InitScoring ==
    /\ \/ \E s \in SeverityInputs, f \in FrequencyInputs :
             call = [NoCall EXCEPT !.fn = "calculate_gotrak_score",
                                   !.severity = s, !.frequency = f]
       \/ \E n \in ScoreInputs :
             call = [NoCall EXCEPT !.fn = "get_gotrak_risk_level", !.gotrak_score = n]
       \/ \E K \in {S \in SUBSET AngleKeys : Cardinality(S) <= MaxAngleKeys} :
          \E a \in AngleDictsOver(K), b \in BodyPartType :
             call = [NoCall EXCEPT !.fn = "calculate_rula_score",
                                   !.angles = a, !.body_part = b]
       \/ \E n \in RulaScoreInputs :
             call = [NoCall EXCEPT !.fn = "get_risk_level_from_rula_score",
                                   !.rula_score = n]
       \/ \E K \in {S \in SUBSET AngleKeys : Cardinality(S) <= MaxAngleKeys} :
          \E a \in AngleDictsOver(K), b \in BodyPartType, survey \in SurveyInputs :
             call = [NoCall EXCEPT !.fn = "create_body_part_assessment",
                                   !.assessment_id = 1,
                                   !.angles = a, !.body_part = b,
                                   !.severity = survey[1], !.frequency = survey[2]]
       \/ \E posture \in PostureInputs, s \in SeverityLevel, f \in FrequencyLevel :
             call = [NoCall EXCEPT !.fn = "create_body_part_assessment",
                                   !.assessment_id = 1,
                                   !.angles = posture[2], !.body_part = posture[1],
                                   !.severity = s, !.frequency = f]
    /\ assessments = IF call.fn = "create_body_part_assessment"
                     THEN <<NewAssessment>> ELSE <<>>
    /\ body_part_assessments = <<>>
    /\ InitUi

NextScoring ==
    \/ call_calculate_gotrak_score
    \/ call_get_gotrak_risk_level
    \/ call_calculate_rula_score
    \/ call_get_risk_level_from_rula_score
    \/ call_create_body_part_assessment

SpecScoring == InitScoring /\ [][NextScoring]_vars

Init ==
    /\ call = NoCall
    /\ InitStore
    /\ InitUi

Next ==
    \/ create_assessment
    \/ \E id \in DOMAIN assessments, posture \in PostureInputs,
          survey \in SurveyInputs :
          create_body_part_assessment(id, posture[1], posture[2], survey[1], survey[2])
    \/ \E id \in 1..MaxAssessments, overall \in OverallInputs :
          complete_assessment(id, overall[1], overall[2])
    \/ \E id \in 0..MaxAssessments : _calculate_overall_scores(id)

Spec == Init /\ [][Next]_vars

----------------------------------------------------------------------------
(* BodyPartAssessmentService: rows are created and read back *)

NextReadBack ==
    \/ create_assessment
    \/ \E id \in DOMAIN assessments, posture \in PostureInputs,
          survey \in SurveyInputs :
          create_body_part_assessment(id, posture[1], posture[2], survey[1], survey[2])
    \/ \E id \in 1..MaxAssessments, body_part \in {NECK, LOWER_BACK, UPPER_BACK} :
          call_get_body_part_risk_info(id, body_part)

SpecReadBack == Init /\ [][NextReadBack]_vars

----------------------------------------------------------------------------
(* AssessmentService alone: create_assessment, and complete_assessment with *)
(* its arguments on record                                                  *)

\* overall scores handed to complete_assessment: those of the callers and of
\* the tests, with every risk level
CompleteInputs ==
    {Decimal(2, 1), Decimal(5, 2), Decimal(16, 5), Decimal(7, 2)} \X RiskLevel

\* complete_assessment is called, for an id the table holds or the next one
call_complete_assessment(assessment_id, overall_rula_score, overall_risk_level) ==
    /\ assessments' = CompletedTable(assessments, assessment_id,
                                     overall_rula_score, overall_risk_level)
    /\ call' = [NoCall EXCEPT !.fn = "complete_assessment", !.done = TRUE,
                              !.outcome = "returned",
                              !.assessment_id = assessment_id,
                              !.overall_rula_score = overall_rula_score,
                              !.overall_risk_level = overall_risk_level]
    /\ UNCHANGED <<body_part_assessments, uiVars>>

NextAssessment ==
    \/ create_assessment
    \/ \E id \in 1..(MaxAssessments + 1), overall \in CompleteInputs :
          call_complete_assessment(id, overall[1], overall[2])

SpecAssessment == Init /\ [][NextAssessment]_vars

----------------------------------------------------------------------------
(* _calculate_overall_scores over every table of body-part rows the model   *)
(* class admits: rula_score is Optional, and the rows come in the order the *)
(* select returns them                                                      *)

\* posture scores of a row: none, and whole scores of the range
RulaInputs == {NoDecimal, Decimal(1, 1), Decimal(2, 1), Decimal(4, 1)}

\* a row of the table body_part_assessments
BodyPartAssessmentRow(assessment_id, rula_score, severity, frequency) ==
    [assessment_id |-> assessment_id,
     body_part |-> NECK,
     rula_score |-> rula_score,
     angle_measurements |-> EmptyDict,
     severity_level |-> severity,
     frequency_level |-> frequency,
     gotrak_score |-> calculate_gotrak_score(severity, frequency),
     gotrak_risk_level |-> get_gotrak_risk_level(calculate_gotrak_score(severity, frequency))]

InitAggregator ==
    /\ call = NoCall
    /\ assessments = [id \in 1..MaxAssessments |-> NewAssessment]
    /\ \E n \in 0..MaxBodyParts :
          body_part_assessments \in
             [1..n -> {BodyPartAssessmentRow(id, rula_score, survey[1], survey[2]) :
                          id \in 1..MaxAssessments, rula_score \in RulaInputs,
                          survey \in SurveyInputs}]
    /\ InitUi

NextAggregator == \E id \in 0..MaxAssessments : _calculate_overall_scores(id)

SpecAggregator == InitAggregator /\ [][NextAggregator]_vars

----------------------------------------------------------------------------
(* GotrakQuestionnaireComponent *)

\* GotrakService.get_default_questions: category and body part of each question
default_questions ==
    <<[question_category |-> "frequency", body_part |-> NECK],
      [question_category |-> "severity", body_part |-> NECK],
      [question_category |-> "frequency", body_part |-> SHOULDER_LEFT],
      [question_category |-> "severity", body_part |-> SHOULDER_LEFT],
      [question_category |-> "frequency", body_part |-> UPPER_BACK],
      [question_category |-> "severity", body_part |-> UPPER_BACK],
      [question_category |-> "frequency", body_part |-> LOWER_BACK],
      [question_category |-> "severity", body_part |-> LOWER_BACK]>>

\* self.questions; question i of the code (from 0) is questions[i + 1]
questions == SubSeq(default_questions, 1, MaxQuestions)

\* d[key] = value
DictSet(d, key, value) ==
    [k \in DOMAIN d \cup {key} |-> IF k = key THEN value ELSE d[k]]

\* the radio options _create_frequency_options / _create_severity_options offer
Options(question_category) ==
    IF question_category = "frequency" THEN FrequencyLevel ELSE SeverityLevel

_is_current_question_answered(index, resp) ==
    LET question == questions[index + 1]
        response == DictGet(resp, index, EmptyDict)
    IN  question.question_category \in DOMAIN response

_are_all_questions_answered(resp) ==
    \A i \in 0..(Len(questions) - 1) :
        questions[i + 1].question_category \in DOMAIN DictGet(resp, i, EmptyDict)

\* variant: the Next button ignores that the question is the last one
_update_navigation_next_on_last(index, resp) ==
    [prev |-> index > 0,
     next |-> _is_current_question_answered(index, resp),
     finish |-> _are_all_questions_answered(resp)]

\* the visibilities _update_navigation sets
_update_navigation(index, resp) ==
    LET current_question_answered == _is_current_question_answered(index, resp)
        is_last_question == index >= Len(questions) - 1
    IN  [prev |-> index > 0,
         next |-> current_question_answered /\ ~is_last_question,
         finish |-> _are_all_questions_answered(resp)]

\* the page is opened: __init__, then create() with _create_assessment
create ==
    /\ ~q_created
    /\ Len(assessments) < MaxAssessments
    /\ q_created' = TRUE
    /\ assessments' = Append(assessments, NewAssessment)
    /\ q_assessment_id' = Len(assessments) + 1
    /\ responses' = <<>>
    /\ current_question_index' = 0
    /\ nav' = _update_navigation(0, <<>>)
    /\ UNCHANGED <<body_part_assessments, webcam_component, latest_analysis, capture_attempts,
                   completed_assessment_id, scoreVars>>

\* a radio option of the question on display is chosen
_save_response(value) ==
    LET question_key == current_question_index
        response_type == questions[current_question_index + 1].question_category
        old == DictGet(responses, question_key, EmptyDict)
    IN  /\ q_created
        /\ value \in Options(response_type)
        /\ responses' = DictSet(responses, question_key,
                                DictSet(old, response_type, value))
        /\ nav' = _update_navigation(current_question_index, responses')
        /\ UNCHANGED <<q_created, q_assessment_id, current_question_index,
                       webcam_component, latest_analysis, capture_attempts, completed_assessment_id,
                       storeVars, scoreVars>>

\* the Previous button is clicked
_previous_question ==
    /\ q_created
    /\ nav.prev
    /\ current_question_index' =
          IF current_question_index > 0 THEN current_question_index - 1
          ELSE current_question_index
    /\ nav' = IF current_question_index > 0
              THEN _update_navigation(current_question_index', responses)
              ELSE nav
    /\ UNCHANGED <<q_created, q_assessment_id, responses, webcam_component,
                   latest_analysis, capture_attempts, completed_assessment_id, storeVars, scoreVars>>

\* the Next button is clicked
_next_question ==
    /\ q_created
    /\ nav.next
    /\ current_question_index' =
          IF current_question_index < Len(questions) - 1
          THEN current_question_index + 1
          ELSE current_question_index
    /\ nav' = IF current_question_index < Len(questions) - 1
              THEN _update_navigation(current_question_index', responses)
              ELSE nav
    /\ UNCHANGED <<q_created, q_assessment_id, responses, webcam_component,
                   latest_analysis, capture_attempts, completed_assessment_id, storeVars, scoreVars>>

\* the body parts in the order _process_responses first meets an answered
\* question of theirs: the key order of body_part_responses
RECURSIVE GroupOrder(_, _, _)
GroupOrder(i, resp, acc) ==
    IF i >= Len(questions) THEN acc
    ELSE LET body_part == questions[i + 1].body_part
             response == DictGet(resp, i, EmptyDict)
         IN  IF response # EmptyDict /\ \A j \in DOMAIN acc : acc[j] # body_part
             THEN GroupOrder(i + 1, resp, Append(acc, body_part))
             ELSE GroupOrder(i + 1, resp, acc)

\* body_part_responses[body_part]: for each category, response.get(category)
\* of the last answered question of that body part and category
body_part_responses(body_part, resp) ==
    LET Of(c) == {i \in 0..(Len(questions) - 1) :
                    /\ DictGet(resp, i, EmptyDict) # EmptyDict
                    /\ questions[i + 1].body_part = body_part
                    /\ questions[i + 1].question_category = c}
        Last(c) == CHOOSE i \in Of(c) : \A j \in Of(c) : j <= i
    IN  [c \in {k \in {"frequency", "severity"} : Of(k) # {}} |->
            DictGet(resp[Last(c)], c, None)]

\* the loop of _process_responses that creates the rows: the rows it commits,
\* and whether SeverityLevel(...) or FrequencyLevel(...) raised ValueError
RECURSIVE CreateLoop(_, _, _, _)
CreateLoop(parts, resp, assessment_id, angles) ==
    IF parts = <<>> THEN [rows |-> <<>>, raised |-> FALSE]
    ELSE LET body_part == Head(parts)
             r == body_part_responses(body_part, resp)
         IN  IF ~({"severity", "frequency"} \subseteq DOMAIN r)
             THEN CreateLoop(Tail(parts), resp, assessment_id, angles)
             ELSE IF r["severity"] \notin SeverityLevel \/ r["frequency"] \notin FrequencyLevel
             THEN [rows |-> <<>>, raised |-> TRUE]
             ELSE LET rest == CreateLoop(Tail(parts), resp, assessment_id, angles)
                  IN  [rows |-> <<NewBodyPartAssessment(assessment_id, body_part, angles,
                                                        r["severity"], r["frequency"])>>
                                \o rest.rows,
                       raised |-> rest.raised]

_process_responses(assessment_id, resp, analysis) ==
    LET angles == IF analysis # NoAnalysis
                  THEN DictGet(analysis, "angles", EmptyDict)
                  ELSE EmptyDict
    IN  CreateLoop(GroupOrder(0, resp, <<>>), resp, assessment_id, angles)

\* no service call of the run raises
NoFault == 0

\* the Complete Assessment button is clicked; fault is the position, among the
\* service calls of the run, of one the database makes raise: the calls of
\* create_body_part_assessment in their order, get_assessment_body_parts, and
\* complete_assessment. A call that writes raises before its commit has taken
\* effect, or after it, in session.refresh
_complete_assessment_at(fault, after_commit) ==
    /\ q_created
    /\ nav.finish
    /\ IF q_assessment_id = NoId
       THEN /\ fault = NoFault
            /\ ~after_commit
            /\ call' = [NoCall EXCEPT !.fn = "_complete_assessment", !.done = TRUE,
                                      !.outcome = "returned"]
            /\ UNCHANGED <<storeVars, completed_assessment_id>>
       ELSE LET webcam_analysis == IF webcam_component THEN latest_analysis
                                   ELSE NoAnalysis
                out == _process_responses(q_assessment_id, responses, webcam_analysis)
                calls == IF out.raised THEN Len(out.rows) ELSE Len(out.rows) + 2
                committed == IF fault = NoFault \/ fault > Len(out.rows) THEN out.rows
                             ELSE IF after_commit THEN SubSeq(out.rows, 1, fault)
                             ELSE SubSeq(out.rows, 1, fault - 1)
                table == body_part_assessments \o committed
                overall == calculate_overall_scores(q_assessment_id, table)
                raised == out.raised \/ fault # NoFault
                completed == ~raised \/ (fault = Len(out.rows) + 2 /\ after_commit)
            IN  /\ fault \in 0..calls
                /\ after_commit => fault \in (1..calls) \ {Len(out.rows) + 1}
                /\ Len(table) <= MaxBodyParts
                /\ body_part_assessments' = table
                /\ call' = [NoCall EXCEPT !.fn = "_complete_assessment", !.done = TRUE,
                                          !.outcome = IF raised THEN "raised"
                                                      ELSE "returned",
                                          !.assessment_id = q_assessment_id,
                                          !.ret_int = Len(committed)]
                /\ assessments' = IF completed
                                  THEN CompletedTable(assessments, q_assessment_id,
                                                      overall[1], overall[2])
                                  ELSE assessments
                /\ completed_assessment_id' = IF raised THEN completed_assessment_id
                                              ELSE q_assessment_id
    /\ UNCHANGED <<q_created, q_assessment_id, responses, current_question_index, nav,
                   webcam_component, latest_analysis, capture_attempts>>

\* the Complete Assessment button is clicked and the database works
_complete_assessment == _complete_assessment_at(NoFault, FALSE)

NextQuestionnaire ==
    \/ create
    \/ \E value \in SeverityLevel \cup FrequencyLevel : _save_response(value)
    \/ _previous_question
    \/ _next_question
    \/ _complete_assessment

SpecQuestionnaire == Init /\ [][NextQuestionnaire]_vars

\* the questionnaire page alone: the page is opened, options are chosen and
\* the Previous and Next buttons are clicked
NextNavigation ==
    \/ create
    \/ \E value \in FrequencyLevel \cup SeverityLevel : _save_response(value)
    \/ _previous_question
    \/ _next_question

SpecNavigation == Init /\ [][NextNavigation]_vars

----------------------------------------------------------------------------
(* PostureAnalysisService and WebcamCaptureComponent *)

\* angle dicts _calculate_mock_rula_angles can return, in whole degrees
MockAngles ==
    {[neck_flexion |-> 25, left_upper_arm |-> 50, right_upper_arm |-> 15,
      left_forearm |-> 90, right_forearm |-> 110, trunk_flexion |-> 10,
      left_wrist_deviation |-> -5, right_wrist_deviation |-> 5]}

\* what analyze_posture can return: no pose in one of four runs, else the
\* landmarks and the angles
analyze_posture ==
    {[error |-> "No pose detected", landmarks |-> None, pose_detected |-> FALSE]}
    \cup {[landmarks |-> "pose_points", angles |-> angles, pose_detected |-> TRUE] :
             angles \in MockAngles}

\* the page /webcam_capture is opened: a new component replaces the stored one
webcam_capture_page ==
    /\ webcam_component' = TRUE
    /\ latest_analysis' = NoAnalysis
    /\ capture_attempts' = <<>>
    /\ call' = NoCall
    /\ UNCHANGED <<q_created, q_assessment_id, responses, current_question_index, nav,
                   completed_assessment_id, storeVars>>

\* variant: the analysis is kept only when a pose was detected
_capture_posture_keep_detected ==
    /\ webcam_component
    /\ Len(capture_attempts) < MaxCaptures
    /\ \E analysis \in analyze_posture :
          /\ latest_analysis' = IF analysis.pose_detected THEN analysis
                                ELSE latest_analysis
          /\ capture_attempts' = Append(capture_attempts, analysis)
    /\ call' = NoCall
    /\ UNCHANGED <<q_created, q_assessment_id, responses, current_question_index, nav,
                   webcam_component, completed_assessment_id, storeVars>>

\* the Capture Posture button is clicked
_capture_posture ==
    /\ webcam_component
    /\ Len(capture_attempts) < MaxCaptures
    /\ \E analysis \in analyze_posture :
          /\ latest_analysis' = analysis
          /\ capture_attempts' = Append(capture_attempts, analysis)
    /\ call' = NoCall
    /\ UNCHANGED <<q_created, q_assessment_id, responses, current_question_index, nav,
                   webcam_component, completed_assessment_id, storeVars>>

----------------------------------------------------------------------------
(* HomePage._create_demo_assessment *)

demo_data ==
    <<<<NECK, "Uncomfortable", "Often">>,
      <<UPPER_BACK, "Pain", "Sometimes">>,
      <<SHOULDER_LEFT, "No problem", "Never">>,
      <<SHOULDER_RIGHT, "Uncomfortable", "Sometimes">>>>

\* the View Demo Results button is clicked: an assessment, its four rows, and
\* its completion with the overall values the handler passes
_create_demo_assessment ==
    LET assessment_id == Len(assessments) + 1
        rows == [i \in DOMAIN demo_data |->
                    NewBodyPartAssessment(assessment_id, demo_data[i][1],
                                          [k \in {"mock_angle"} |-> 25],
                                          demo_data[i][2], demo_data[i][3])]
    IN  /\ Len(assessments) < MaxAssessments
        /\ assessments' = CompletedTable(Append(assessments, NewAssessment),
                                         assessment_id, Decimal(16, 5), YELLOW)
        /\ body_part_assessments' = body_part_assessments \o rows
        /\ completed_assessment_id' = assessment_id
        /\ call' = NoCall
        /\ UNCHANGED <<q_created, q_assessment_id, responses, current_question_index,
                       nav, webcam_component, latest_analysis, capture_attempts>>

----------------------------------------------------------------------------
(* One browser session: the webcam page, the questionnaire page and the     *)
(* demo button of the home page, with a database that can fail during the   *)
(* completion of the questionnaire                                          *)

\* the answers chosen in the session: one option of each category
SessionAnswers == {"Pain", "Often"}

NextSession ==
    \/ webcam_capture_page
    \/ _capture_posture
    \/ create
    \/ \E value \in SessionAnswers : _save_response(value)
    \/ _previous_question
    \/ _next_question
    \/ \E fault \in 0..(MaxBodyParts + 2), after_commit \in BOOLEAN :
          _complete_assessment_at(fault, after_commit)
    \/ _create_demo_assessment

SpecSession == Init /\ [][NextSession]_vars

----------------------------------------------------------------------------
(* the body map page *)

\* the members of the enum BodyPartType: the value of each member, by its name
BodyPartTypeMembers ==
    [NECK |-> "Neck", SHOULDER_LEFT |-> "Left Shoulder",
     SHOULDER_RIGHT |-> "Right Shoulder", ARM_LEFT |-> "Left Arm",
     ARM_RIGHT |-> "Right Arm", ELBOW_LEFT |-> "Left Elbow",
     ELBOW_RIGHT |-> "Right Elbow", WRIST_LEFT |-> "Left Wrist",
     WRIST_RIGHT |-> "Right Wrist", HAND_LEFT |-> "Left Hand",
     HAND_RIGHT |-> "Right Hand", UPPER_BACK |-> "Upper Back",
     LOWER_BACK |-> "Lower Back", HIP_LEFT |-> "Left Hip",
     HIP_RIGHT |-> "Right Hip", THIGH_LEFT |-> "Left Thigh",
     THIGH_RIGHT |-> "Right Thigh", KNEE_LEFT |-> "Left Knee",
     KNEE_RIGHT |-> "Right Knee", ANKLE_LEFT |-> "Left Ankle",
     ANKLE_RIGHT |-> "Right Ankle"]

\* the data-part attributes of the clickable regions _create_body_map_svg draws;
\* the click handler of the page posts this.dataset.part as bodyPart
data_parts ==
    {"NECK", "SHOULDER_LEFT", "SHOULDER_RIGHT", "ARM_LEFT", "ARM_RIGHT",
     "UPPER_BACK", "LOWER_BACK", "WRIST_LEFT", "WRIST_RIGHT"}

\* BodyPartType(value), the lookup of an enum member by its value: the member,
\* or None where the call raises ValueError
BodyPartTypeOf(value) ==
    IF \E name \in DOMAIN BodyPartTypeMembers : BodyPartTypeMembers[name] = value
    THEN value
    ELSE None

\* POST /body_map_click with the bodyPart of a clicked region; the page, and
\* with it the handler, exists once completed_assessment_id is stored
handle_body_map_click(body_part_name) ==
    LET body_part == BodyPartTypeOf(body_part_name)
    IN  /\ completed_assessment_id # NoId
        /\ call' = IF body_part = None
                   THEN [NoCall EXCEPT !.fn = "handle_body_map_click", !.done = TRUE,
                                       !.outcome = "raised",
                                       !.body_part_name = body_part_name,
                                       !.status = "error"]
                   ELSE [NoCall EXCEPT !.fn = "handle_body_map_click", !.done = TRUE,
                                       !.outcome = "returned",
                                       !.body_part_name = body_part_name,
                                       !.selected_body_part = body_part,
                                       !.status = "success"]
        /\ UNCHANGED <<storeVars, uiVars>>

\* a session that goes on to the body map and clicks its regions
NextBodyMap ==
    \/ NextSession
    \/ \E body_part_name \in data_parts : handle_body_map_click(body_part_name)

SpecBodyMap == Init /\ [][NextBodyMap]_vars

----------------------------------------------------------------------------
(* Properties *)

\* the ranks the specification gives the survey answers
RankOfSeverity(s) ==
    CASE s = "No problem" -> 1 [] s = "Uncomfortable" -> 2
      [] s = "Pain" -> 3 [] s = "Severe pain" -> 4

RankOfFrequency(f) ==
    CASE f = "Never" -> 1 [] f = "Sometimes" -> 2
      [] f = "Often" -> 3 [] f = "Always" -> 4

Returned(fn) == call.fn = fn /\ call.done /\ call.outcome = "returned"

\* C1: for every severity and frequency of the enumerations,
\* calculate_gotrak_score returns rank(severity) * rank(frequency), a value in 1..16
C1_GotrakScoreIsRankProduct ==
    (/\ call.fn = "calculate_gotrak_score"
     /\ call.done
     /\ call.severity \in SeverityLevel
     /\ call.frequency \in FrequencyLevel)
    => /\ call.outcome = "returned"
       /\ call.ret_int = RankOfSeverity(call.severity) * RankOfFrequency(call.frequency)
       /\ call.ret_int \in 1..16

C1_Witness ==
    /\ Returned("calculate_gotrak_score")
    /\ call.severity = "Pain"
    /\ call.frequency = "Always"
    /\ call.ret_int = 12

\* C2: for a discomfort score in 1..16, get_gotrak_risk_level returns green up
\* to 4, yellow for 6 and red for 5 and for 7..16
C2_GotrakRiskBands ==
    (call.fn = "get_gotrak_risk_level" /\ call.done /\ call.gotrak_score \in 1..16)
    => /\ call.outcome = "returned"
       /\ call.gotrak_score <= 4 => call.ret_risk = GREEN
       /\ call.gotrak_score = 6 => call.ret_risk = YELLOW
       /\ call.gotrak_score \in {5} \cup 7..16 => call.ret_risk = RED

C2_Witness ==
    /\ Returned("get_gotrak_risk_level")
    /\ call.gotrak_score = 5
    /\ call.ret_risk = RED

\* the rows the last _calculate_overall_scores call read
RowsRead == get_assessment_body_parts(body_part_assessments, call.assessment_id)

RowsWithRisk(rows, risk) == {i \in DOMAIN rows : rows[i].gotrak_risk_level = risk}

\* C3: when a row the session aggregator reads has discomfort risk red, the
\* overall risk it returns is red, whatever the other rows are
C3_AnyRedGivesRed ==
    (Returned("_calculate_overall_scores") /\ RowsWithRisk(RowsRead, RED) # {})
    => call.ret_risk = RED

C3_Witness ==
    /\ Returned("_calculate_overall_scores")
    /\ Cardinality(RowsWithRisk(RowsRead, RED)) = 1
    /\ Len(RowsRead) = 2
    /\ call.ret_risk = RED

\* C4: when no row is red, the session aggregator returns yellow exactly when
\* at least two rows are yellow, and green when exactly one row is yellow
C4_YellowNeedsTwo ==
    (Returned("_calculate_overall_scores") /\ RowsWithRisk(RowsRead, RED) = {})
    => /\ call.ret_risk = YELLOW <=> Cardinality(RowsWithRisk(RowsRead, YELLOW)) >= 2
       /\ Cardinality(RowsWithRisk(RowsRead, YELLOW)) = 1 => call.ret_risk = GREEN

C4_Witness ==
    /\ Returned("_calculate_overall_scores")
    /\ Cardinality(RowsWithRisk(RowsRead, YELLOW)) = 2
    /\ call.ret_risk = YELLOW

\* the highest discomfort risk rank among rows
HighestRank(rows) ==
    CHOOSE m \in 1..3 :
        /\ \E i \in DOMAIN rows : RiskRank(rows[i].gotrak_risk_level) = m
        /\ \A i \in DOMAIN rows : RiskRank(rows[i].gotrak_risk_level) <= m

\* C5 as stated: with at least one row, the overall risk is never lower than
\* the highest discomfort risk among the rows
C5_OverallAtLeastHighest ==
    (Returned("_calculate_overall_scores") /\ RowsRead # <<>>)
    => RiskRank(call.ret_risk) >= HighestRank(RowsRead)

\* C5 amended: with at least one row, the overall risk is never lower than the
\* highest discomfort risk among the rows, unless no row is red and exactly
\* one is yellow, and then the overall risk is green
C5_OverallAtLeastHighestButOneYellow ==
    (Returned("_calculate_overall_scores") /\ RowsRead # <<>>)
    => IF /\ RowsWithRisk(RowsRead, RED) = {}
          /\ Cardinality(RowsWithRisk(RowsRead, YELLOW)) = 1
       THEN call.ret_risk = GREEN
       ELSE RiskRank(call.ret_risk) >= HighestRank(RowsRead)

C5_Witness ==
    /\ Returned("_calculate_overall_scores")
    /\ Len(RowsRead) = 2
    /\ Cardinality(RowsWithRisk(RowsRead, YELLOW)) = 1
    /\ Cardinality(RowsWithRisk(RowsRead, GREEN)) = 1
    /\ call.ret_risk = GREEN

IsCompleted(table, id) == id \in DOMAIN table /\ table[id].is_completed

\* C6 as stated: no step adds a body-part row to an assessment that is completed
C6_NoRowAfterCompletion ==
    [][\A i \in DOMAIN body_part_assessments' :
          i \notin DOMAIN body_part_assessments
          => ~IsCompleted(assessments, body_part_assessments'[i].assessment_id)]_vars

\* C7: once is_completed is true of an assessment, every service operation
\* leaves it true
C7_CompletionIsOneWay ==
    [][\A id \in DOMAIN assessments :
          assessments[id].is_completed
          => id \in DOMAIN assessments' /\ assessments'[id].is_completed]_vars

C7_Witness ==
    \E id \in DOMAIN assessments :
        /\ assessments[id].is_completed
        /\ assessments[id].overall_risk_level = YELLOW
        /\ get_assessment_body_parts(body_part_assessments, id) # <<>>

\* C8 as stated: a severity or frequency outside the enumerations is rejected
\* by calculate_gotrak_score with InvalidInput
C8_UnknownAnswerRejected ==
    (/\ call.fn = "calculate_gotrak_score"
     /\ call.done
     /\ (call.severity \notin SeverityLevel \/ call.frequency \notin FrequencyLevel))
    => call.outcome = "InvalidInput"

\* C9 as stated: the store holds at most one row per (assessment_id, body_part)
C9_OneRowPerBodyPart ==
    \A i, j \in DOMAIN body_part_assessments :
        (/\ body_part_assessments[i].assessment_id = body_part_assessments[j].assessment_id
         /\ body_part_assessments[i].body_part = body_part_assessments[j].body_part)
        => i = j

\* C10: for the neck, calculate_rula_score scores the angle under neck_flexion,
\* whatever other keys are present: below 10 gives 1, from 10 to below 20
\* gives 2, from 20 on gives 3
C10_NeckBands ==
    (/\ call.fn = "calculate_rula_score"
     /\ call.done
     /\ call.body_part = NECK
     /\ "neck_flexion" \in DOMAIN call.angles)
    => LET angle == call.angles["neck_flexion"]
           score == IF angle < 10 THEN 1 ELSE IF angle >= 20 THEN 3 ELSE 2
       IN  /\ call.outcome = "returned"
           /\ DOMAIN call.ret_scores = {"position_score", "final_score"}
           /\ call.ret_scores["position_score"] = score
           /\ call.ret_scores["final_score"] = score

C10_Witness ==
    /\ Returned("calculate_rula_score")
    /\ call.body_part = NECK
    /\ DOMAIN call.angles = {"neck_flexion", "trunk_flexion"}
    /\ call.angles["neck_flexion"] = 10
    /\ call.angles["trunk_flexion"] = 60
    /\ call.ret_scores["position_score"] = 2

\* the key calculate_rula_score reads for an arm
ArmKey(body_part) ==
    IF body_part = ARM_LEFT THEN "left_upper_arm" ELSE "right_upper_arm"

\* C11: for the left arm calculate_rula_score scores the angle under
\* left_upper_arm and for the right arm the one under right_upper_arm,
\* whatever other keys are present: below 20 gives 1, from 20 to below 45
\* gives 2, from 45 to below 90 gives 3, from 90 on gives 4
C11_ArmBands ==
    (/\ call.fn = "calculate_rula_score"
     /\ call.done
     /\ call.body_part \in {ARM_LEFT, ARM_RIGHT}
     /\ ArmKey(call.body_part) \in DOMAIN call.angles)
    => LET angle == call.angles[ArmKey(call.body_part)]
           score == IF angle < 20 THEN 1
                    ELSE IF angle >= 90 THEN 4
                    ELSE IF angle >= 45 THEN 3
                    ELSE 2
       IN  /\ call.outcome = "returned"
           /\ DOMAIN call.ret_scores = {"position_score", "final_score"}
           /\ call.ret_scores["position_score"] = score
           /\ call.ret_scores["final_score"] = score

C11_Witness ==
    /\ Returned("calculate_rula_score")
    /\ call.body_part = ARM_RIGHT
    /\ DOMAIN call.angles = {"left_upper_arm", "right_upper_arm"}
    /\ call.angles["left_upper_arm"] = 90
    /\ call.angles["right_upper_arm"] = 45
    /\ call.ret_scores["position_score"] = 3

\* C12: for the upper back calculate_rula_score scores the angle under
\* trunk_flexion, whatever other keys are present: below 5 gives 1, from 5 to
\* below 20 gives 2, from 20 to below 60 gives 3, from 60 on gives 4
C12_TrunkBands ==
    (/\ call.fn = "calculate_rula_score"
     /\ call.done
     /\ call.body_part = UPPER_BACK
     /\ "trunk_flexion" \in DOMAIN call.angles)
    => LET angle == call.angles["trunk_flexion"]
           score == IF angle < 5 THEN 1
                    ELSE IF angle >= 60 THEN 4
                    ELSE IF angle >= 20 THEN 3
                    ELSE 2
       IN  /\ call.outcome = "returned"
           /\ DOMAIN call.ret_scores = {"position_score", "final_score"}
           /\ call.ret_scores["position_score"] = score
           /\ call.ret_scores["final_score"] = score

C12_Witness ==
    /\ Returned("calculate_rula_score")
    /\ call.body_part = UPPER_BACK
    /\ DOMAIN call.angles = {"neck_flexion", "trunk_flexion"}
    /\ call.angles["neck_flexion"] = 20
    /\ call.angles["trunk_flexion"] = 5
    /\ call.ret_scores["position_score"] = 2

\* the body parts calculate_rula_score has an angle table for
TableScored == {NECK, ARM_LEFT, ARM_RIGHT, UPPER_BACK}

\* C13: for a body part other than the neck, the arms and the upper back,
\* calculate_rula_score returns position score 2 and final score 2 for every
\* angle mapping, the empty one included
C13_OtherPartsScoreTwo ==
    (/\ call.fn = "calculate_rula_score"
     /\ call.done
     /\ call.body_part \notin TableScored)
    => /\ call.outcome = "returned"
       /\ DOMAIN call.ret_scores = {"position_score", "final_score"}
       /\ call.ret_scores["position_score"] = 2
       /\ call.ret_scores["final_score"] = 2

C13_Witness ==
    /\ Returned("calculate_rula_score")
    /\ call.body_part = LOWER_BACK
    /\ DOMAIN call.angles = {"trunk_flexion"}
    /\ call.angles["trunk_flexion"] = 60
    /\ call.ret_scores["final_score"] = 2

\* the measurement a table-scored body part is scored from
MeasurementKey(body_part) ==
    CASE body_part = NECK -> "neck_flexion"
      [] body_part = ARM_LEFT -> "left_upper_arm"
      [] body_part = ARM_RIGHT -> "right_upper_arm"
      [] body_part = UPPER_BACK -> "trunk_flexion"

\* a call for a table-scored body part whose measurement is not in the angles
MeasurementMissing ==
    /\ call.body_part \in TableScored
    /\ MeasurementKey(call.body_part) \notin DOMAIN call.angles

\* the row a finished create_body_part_assessment call has stored
StoredRow == body_part_assessments[Len(body_part_assessments)]

\* C14: when the measurement of a table-scored body part is missing from the
\* angles, calculate_rula_score returns, and without a final score, and
\* create_body_part_assessment returns and has stored one row with posture
\* score 2
C14_MissingMeasurementGivesDefault ==
    /\ (call.fn = "calculate_rula_score" /\ call.done /\ MeasurementMissing)
       => /\ call.outcome = "returned"
          /\ "final_score" \notin DOMAIN call.ret_scores
    /\ (call.fn = "create_body_part_assessment" /\ call.done /\ MeasurementMissing)
       => /\ call.outcome = "returned"
          /\ Len(body_part_assessments) = 1
          /\ StoredRow.body_part = call.body_part
          /\ StoredRow.rula_score = <<2, 1>>

C14_Witness ==
    /\ Returned("create_body_part_assessment")
    /\ call.body_part = ARM_LEFT
    /\ DOMAIN call.angles = {"right_upper_arm", "trunk_flexion"}
    /\ call.angles["right_upper_arm"] = 90
    /\ StoredRow.rula_score = <<2, 1>>

\* the highest posture score a body part can get
UpperBound(body_part) == IF body_part = NECK THEN 3 ELSE 4

\* C15: for every body part and angle mapping, negative angles included, each
\* score calculate_rula_score returns and the rula_score
\* create_body_part_assessment stores is a whole number from 1 to 4, and at
\* most 3 for the neck
C15_PostureScoreInRange ==
    /\ (call.fn = "calculate_rula_score" /\ call.done)
       => \A k \in DOMAIN call.ret_scores :
             call.ret_scores[k] \in 1..UpperBound(call.body_part)
    /\ (call.fn = "create_body_part_assessment" /\ call.done)
       => /\ Len(body_part_assessments) = 1
          /\ StoredRow.rula_score # NoDecimal
          /\ StoredRow.rula_score[2] = 1
          /\ StoredRow.rula_score[1] \in 1..UpperBound(call.body_part)

C15_Witness ==
    /\ Returned("create_body_part_assessment")
    /\ call.body_part = ARM_RIGHT
    /\ "right_upper_arm" \in DOMAIN call.angles
    /\ call.angles["right_upper_arm"] = -15
    /\ StoredRow.rula_score = <<1, 1>>

\* C16: for a posture final score from 1 to 7, get_risk_level_from_rula_score
\* returns green up to 2, yellow for 3 and 4, and red from 5 on
C16_RulaRiskBands ==
    (/\ call.fn = "get_risk_level_from_rula_score"
     /\ call.done
     /\ call.rula_score \in 1..7)
    => /\ call.outcome = "returned"
       /\ call.ret_risk = (CASE call.rula_score \in {1, 2} -> GREEN
                             [] call.rula_score \in {3, 4} -> YELLOW
                             [] call.rula_score \in 5..7 -> RED)

C16_Witness ==
    /\ Returned("get_risk_level_from_rula_score")
    /\ call.rula_score = 5
    /\ call.ret_risk = RED

\* C17: for an assessment without body-part rows, and for a component
\* without an assessment id, the session aggregator returns overall score 2
\* and overall risk green
C17_NoRowsGivesDefaults ==
    (/\ call.fn = "_calculate_overall_scores"
     /\ call.done
     /\ (call.assessment_id = NoId \/ RowsRead = <<>>))
    => /\ call.outcome = "returned"
       /\ call.ret_decimal = <<2, 1>>
       /\ call.ret_risk = GREEN

C17_Witness ==
    /\ Returned("_calculate_overall_scores")
    /\ call.assessment_id \in DOMAIN assessments
    /\ RowsRead = <<>>
    /\ call.ret_decimal = <<2, 1>>
    /\ call.ret_risk = GREEN

\* the rows among those read that have a posture score
RowsPresent == SelectSeq(RowsRead, LAMBDA bp : bp.rula_score # NoDecimal)

\* the sum of whole posture scores
RECURSIVE WholeSum(_)
WholeSum(rows) ==
    IF rows = <<>> THEN 0 ELSE Head(rows).rula_score[1] + WholeSum(Tail(rows))

\* C18: with at least one row, the overall score the session aggregator
\* returns is the sum of the posture scores present divided by their number,
\* the rows without a posture score counting in neither, and 2 when no row
\* has a posture score
C18_OverallScoreIsMeanOfPresent ==
    (Returned("_calculate_overall_scores") /\ RowsRead # <<>>)
    => IF RowsPresent = <<>>
       THEN call.ret_decimal = <<2, 1>>
       ELSE /\ \A i \in DOMAIN RowsPresent : RowsPresent[i].rula_score[2] = 1
            /\ call.ret_decimal # NoDecimal
            /\ call.ret_decimal[2] > 0
            /\ call.ret_decimal[1] * Len(RowsPresent)
                  = WholeSum(RowsPresent) * call.ret_decimal[2]

C18_Witness ==
    /\ Returned("_calculate_overall_scores")
    /\ Len(RowsRead) = 2
    /\ RowsRead[1].rula_score = NoDecimal
    /\ RowsRead[2].rula_score = <<4, 1>>
    /\ call.ret_decimal = <<4, 1>>

\* the rearrangements of the positions 1..n
Rearrangements(n) ==
    {p \in [1..n -> 1..n] : \A i, j \in 1..n : p[i] = p[j] => i = j}

\* the rows of table in the order p
Rearranged(table, p) == [i \in DOMAIN table |-> table[p[i]]]

\* C19: the session aggregator returns what it would return on every
\* rearrangement of the rows, and a step that computes the overall scores
\* again for the same assessment over unchanged rows returns the same
\* overall score and overall risk as before
C19_OrderIndependentAndIdempotent ==
    [][Returned("_calculate_overall_scores")'
       => /\ \A p \in Rearrangements(Len(body_part_assessments')) :
                calculate_overall_scores(call'.assessment_id,
                                         Rearranged(body_part_assessments', p))
                   = <<call'.ret_decimal, call'.ret_risk>>
          /\ (/\ Returned("_calculate_overall_scores")
              /\ call.assessment_id = call'.assessment_id
              /\ body_part_assessments = body_part_assessments')
             => /\ call'.ret_decimal = call.ret_decimal
                /\ call'.ret_risk = call.ret_risk]_vars

C19_Witness ==
    /\ Returned("_calculate_overall_scores")
    /\ Len(RowsRead) = 2
    /\ RowsRead[1].gotrak_risk_level = GREEN
    /\ RowsRead[2].gotrak_risk_level = RED
    /\ RowsRead[1].rula_score = <<1, 1>>
    /\ RowsRead[2].rula_score = NoDecimal
    /\ call.ret_decimal = <<1, 1>>
    /\ call.ret_risk = RED

\* C20: a step of the service operations that changes the body-part rows adds
\* exactly one row at the end, leaves every row stored before as it was, a
\* row of the same assessment and body part included, and leaves the
\* assessments as they were
C20_CreateOnlyAppends ==
    [][body_part_assessments' # body_part_assessments
       => /\ Len(body_part_assessments') = Len(body_part_assessments) + 1
          /\ \A i \in DOMAIN body_part_assessments :
                body_part_assessments'[i] = body_part_assessments[i]
          /\ assessments' = assessments]_vars

C20_Witness ==
    /\ Len(body_part_assessments) = 2
    /\ body_part_assessments[1].assessment_id = body_part_assessments[2].assessment_id
    /\ body_part_assessments[1].body_part = NECK
    /\ body_part_assessments[2].body_part = NECK
    /\ body_part_assessments[1].rula_score = <<2, 1>>
    /\ body_part_assessments[2].rula_score = <<3, 1>>
    /\ body_part_assessments[1].gotrak_risk_level = RED
    /\ body_part_assessments[2].gotrak_risk_level = GREEN

\* C21: when complete_assessment(id, score, risk) has returned for an
\* assessment the table holds, that assessment has overall_rula_score = score,
\* overall_risk_level = risk and is_completed true; the assessment a step has
\* just created has is_completed false
C21_CompleteSetsFields ==
    [][/\ (Returned("complete_assessment")' /\ call'.assessment_id \in DOMAIN assessments')
          => /\ assessments'[call'.assessment_id].overall_rula_score
                   = call'.overall_rula_score
             /\ assessments'[call'.assessment_id].overall_risk_level
                   = call'.overall_risk_level
             /\ assessments'[call'.assessment_id].is_completed = TRUE
       /\ Len(assessments') > Len(assessments)
          => assessments'[Len(assessments')].is_completed = FALSE]_vars

C21_Witness ==
    /\ Returned("complete_assessment")
    /\ call.assessment_id = 1
    /\ call.overall_rula_score = <<7, 2>>
    /\ call.overall_risk_level = YELLOW
    /\ Len(assessments) >= 1
    /\ assessments[1] = [overall_rula_score |-> <<7, 2>>,
                         overall_risk_level |-> YELLOW, is_completed |-> TRUE]

C23_StoredOverallIsAggregate ==
    \A id \in DOMAIN assessments :
        assessments[id].is_completed
        => <<assessments[id].overall_rula_score, assessments[id].overall_risk_level>>
              = calculate_overall_scores(id, body_part_assessments)

\* C24: the row create_body_part_assessment has stored holds the severity and
\* frequency it was called with, a gotrak_score that is the product of their
\* ranks, and the gotrak_risk_level get_gotrak_risk_level gives for that score
C24_StoredRowIsConsistent ==
    (call.fn = "create_body_part_assessment" /\ call.done)
    => /\ Len(body_part_assessments) = 1
       /\ StoredRow.severity_level = call.severity
       /\ StoredRow.frequency_level = call.frequency
       /\ StoredRow.gotrak_score
             = RankOfSeverity(StoredRow.severity_level)
               * RankOfFrequency(StoredRow.frequency_level)
       /\ StoredRow.gotrak_risk_level = get_gotrak_risk_level(StoredRow.gotrak_score)

C24_Witness ==
    /\ Returned("create_body_part_assessment")
    /\ StoredRow.severity_level = "Severe pain"
    /\ StoredRow.frequency_level = "Sometimes"
    /\ StoredRow.gotrak_score = 8
    /\ StoredRow.gotrak_risk_level = RED
    /\ StoredRow.rula_score = <<2, 1>>

\* the products of two ranks
ProducibleScores == {1, 2, 3, 4, 6, 8, 9, 12, 16}

\* C25: for every severity and frequency of the enumerations the discomfort
\* score calculate_gotrak_score returns is one of 1, 2, 3, 4, 6, 8, 9, 12, 16,
\* never 5 or 7, and the row create_body_part_assessment stores for them is
\* green exactly for a score in 1..4, yellow exactly for 6 and red exactly
\* for a score in 8..16
C25_BandsCoverProducibleScores ==
    /\ (/\ call.fn = "calculate_gotrak_score"
        /\ call.done
        /\ call.severity \in SeverityLevel
        /\ call.frequency \in FrequencyLevel)
       => /\ call.ret_int \in ProducibleScores
          /\ call.ret_int \notin {5, 7}
    /\ (call.fn = "create_body_part_assessment" /\ call.done)
       => /\ Len(body_part_assessments) = 1
          /\ StoredRow.gotrak_score \in ProducibleScores
          /\ StoredRow.gotrak_risk_level \in RiskLevel
          /\ StoredRow.gotrak_risk_level = GREEN <=> StoredRow.gotrak_score \in 1..4
          /\ StoredRow.gotrak_risk_level = YELLOW <=> StoredRow.gotrak_score = 6
          /\ StoredRow.gotrak_risk_level = RED <=> StoredRow.gotrak_score \in 8..16

C25_Witness ==
    /\ Returned("create_body_part_assessment")
    /\ StoredRow.severity_level = "Uncomfortable"
    /\ StoredRow.frequency_level = "Always"
    /\ StoredRow.gotrak_score = 8
    /\ StoredRow.gotrak_risk_level = RED

\* C26: the discomfort risk level stored for a severity and a frequency is
\* not higher, in the order green < yellow < red, than the level
\* get_gotrak_risk_level(calculate_gotrak_score(s, f)) of any severity s and
\* frequency f of at least their ranks
C26_RiskIsMonotone ==
    (call.fn = "create_body_part_assessment" /\ call.done)
    => /\ Len(body_part_assessments) = 1
       /\ \A s \in SeverityLevel, f \in FrequencyLevel :
             (/\ RankOfSeverity(call.severity) <= RankOfSeverity(s)
              /\ RankOfFrequency(call.frequency) <= RankOfFrequency(f))
             => RiskRank(StoredRow.gotrak_risk_level)
                   <= RiskRank(get_gotrak_risk_level(calculate_gotrak_score(s, f)))

C26_Witness ==
    /\ Returned("create_body_part_assessment")
    /\ call.severity = "Uncomfortable"
    /\ call.frequency = "Often"
    /\ StoredRow.gotrak_risk_level = YELLOW
    /\ get_gotrak_risk_level(calculate_gotrak_score("Pain", "Often")) = RED

\* the rows the last run of _complete_assessment committed
RowsCommitted ==
    SubSeq(body_part_assessments,
           Len(body_part_assessments) - call.ret_int + 1, Len(body_part_assessments))

\* the angles of the most recent capture attempt of the webcam component:
\* none without an attempt and none when no pose was detected
AnglesOfLastAttempt ==
    IF capture_attempts = <<>> THEN EmptyDict
    ELSE DictGet(capture_attempts[Len(capture_attempts)], "angles", EmptyDict)

\* C27: the rows a run of _complete_assessment commits carry the angles of
\* the most recent capture attempt; when that attempt detected no pose they
\* carry no angles and posture score 2, whatever earlier attempts returned
C27_LastAttemptDecidesAngles ==
    (call.fn = "_complete_assessment" /\ call.done /\ call.ret_int > 0)
    => \A i \in DOMAIN RowsCommitted :
          /\ RowsCommitted[i].angle_measurements = AnglesOfLastAttempt
          /\ (/\ capture_attempts # <<>>
              /\ ~capture_attempts[Len(capture_attempts)].pose_detected)
             => /\ RowsCommitted[i].angle_measurements = EmptyDict
                /\ RowsCommitted[i].rula_score = <<2, 1>>

C27_Witness ==
    /\ Returned("_complete_assessment")
    /\ call.ret_int = 1
    /\ Len(capture_attempts) = 2
    /\ capture_attempts[1].pose_detected
    /\ ~capture_attempts[2].pose_detected
    /\ RowsCommitted[1].body_part = NECK
    /\ RowsCommitted[1].rula_score = <<2, 1>>

\* C28 as stated: a run of _complete_assessment in which a step raises
\* leaves the assessments as they were, none newly marked completed, stores
\* no completed_assessment_id, and keeps the body-part rows committed before
\* and during the run
C28_FailedRunCompletesNothing ==
    [][(/\ call'.fn = "_complete_assessment"
        /\ call'.outcome = "raised"
        /\ (call' # call \/ body_part_assessments' # body_part_assessments
                         \/ assessments' # assessments))
       => /\ assessments' = assessments
          /\ completed_assessment_id' = completed_assessment_id
          /\ Len(body_part_assessments')
                = Len(body_part_assessments) + call'.ret_int
          /\ \A i \in DOMAIN body_part_assessments :
                body_part_assessments'[i] = body_part_assessments[i]]_vars

\* question i (from 0) has a recorded response of its own category
Answered(i) ==
    /\ i \in DOMAIN responses
    /\ questions[i + 1].question_category \in DOMAIN responses[i]

\* C29: once the questionnaire is on display, and after every choice of an
\* option and every click of Previous or Next, the Complete Assessment button
\* is visible exactly when every question is answered, the Next button
\* exactly when the question on display is answered and is not the last, and
\* current_question_index is within 0..len(questions)-1
C29_NavigationFollowsResponses ==
    q_created
    => /\ current_question_index \in 0..(Len(questions) - 1)
       /\ nav.finish <=> \A i \in 0..(Len(questions) - 1) : Answered(i)
       /\ nav.next <=> /\ Answered(current_question_index)
                       /\ current_question_index # Len(questions) - 1

\* every question is answered and the last one is on display: Complete
\* Assessment is visible and Next is not
C29_Witness ==
    /\ q_created
    /\ \A i \in 0..(Len(questions) - 1) : Answered(i)
    /\ current_question_index = Len(questions) - 1
    /\ nav.finish
    /\ ~nav.next

\* C30 as stated: a click on a region of the body map is answered with status
\* success, and show_body_part_info has been invoked for the member of
\* BodyPartType the region's data-part names
C30_ClickShowsBodyPart ==
    (call.fn = "handle_body_map_click" /\ call.done)
    => /\ call.status = "success"
       /\ call.body_part_name \in DOMAIN BodyPartTypeMembers
       /\ call.selected_body_part = BodyPartTypeMembers[call.body_part_name]

====
